---- MODULE Spec2Model ----
(***************************************************************************)
(* A model of the timer store, the time projection, the keypad buffer and  *)
(* the auto-stop watchdog of src/src/App.jsx.                              *)
(*                                                                         *)
(* Times are epoch milliseconds.  Epoch 0 is taken to be a local midnight. *)
(* `clock` is what Date.now() returns; the handlers read it, the renderer  *)
(* reads the sampled copy nowEpochMs.  Date.now() is the wall clock: it    *)
(* normally advances and may be set back.                                  *)
(***************************************************************************)
EXTENDS Integers, Sequences, FiniteSets

VARIABLES timers, selectedTimerId, keypadDigits, nextTimerNumber,
          clearBehavior, allowNegativeTime, nowEpochMs, clock, issuedIds, intents,
          limits

vars == <<timers, selectedTimerId, keypadDigits, nextTimerNumber,
          clearBehavior, allowNegativeTime, nowEpochMs, clock, issuedIds, intents,
          limits>>

(* ------------------------------ bounds -------------------------------- *)

\* The wall clock moves in steps of ClockStep ms, at most MaxClockSteps from 0.
ClockStep == 600
MaxClockSteps == 2
\* addTimer is taken while the next timer number is at most MaxTimerNumber.
MaxTimerNumber == 3
\* Keypad buttons pressed: 1..MaxDigit, while the buffer is shorter than MaxTyped.
MaxDigit == 1
MaxTyped == 1
\* A run of Spec holds at most MaxIntents user intents (clock moves and ticks are
\* not counted).
MaxIntents == 4
\* A run of SpecSelected holds at most MaxSelectedIntents user intents.
MaxSelectedIntents == 6
\* A run of SpecCountTo holds at most MaxCountToIntents user intents.
MaxCountToIntents == 8
\* A run of SpecPair holds at most MaxPairIntents user intents.
MaxPairIntents == 4
\* A run of SpecKeypad holds at most MaxKeypadPresses presses of keypad buttons.
MaxKeypadPresses == 8
\* A run of SpecForward holds at most MaxForwardIntents user intents.
MaxForwardIntents == 7

(* ----------------------------- constants ------------------------------ *)

Null == -1
InitialTimerCount == 2
KeypadLen == 6
\* The keypad's buttons are the digits 0..TopDigit.
TopDigit == 9
MsPerSecond == 1000
DayMs == 86400000

CountUp == "Up"
CountDown == "Down"
CountTo == "To"
TimerMode == {CountUp, CountDown, CountTo}

ClearBehaviors == {"resetAll", "keepTarget"}

(* --------------------------- pure functions --------------------------- *)

Max(a, b) == IF a >= b THEN a ELSE b
Min(a, b) == IF a <= b THEN a ELSE b

clamp(n, min, max) == Min(max, Max(min, n))

\* The slice that keeps the first n digits (slice(0, n)) instead of the last.
SliceLast_KeepsFirst(s, n) == IF Len(s) <= n THEN s ELSE SubSeq(s, 1, n)

\* digits.slice(-n)
SliceLast(s, n) == IF Len(s) <= n THEN s ELSE SubSeq(s, Len(s) - n + 1, Len(s))

\* The padding put after the digits (padEnd) instead of before them.
PadStart_PadsEnd(d) == [i \in 1..KeypadLen |-> IF i <= Len(d) THEN d[i] ELSE 0]

\* d.padStart(6, '0')
PadStart(d) == [i \in 1..KeypadLen |->
                  IF i <= KeypadLen - Len(d) THEN 0 ELSE d[i - (KeypadLen - Len(d))]]

parseKeypadDigitsToHms(digits) ==
  LET d == SliceLast(digits, KeypadLen)
      padded == PadStart(d)
      h == padded[1] * 10 + padded[2]
      m == padded[3] * 10 + padded[4]
      s == padded[5] * 10 + padded[6]
  IN [h |-> clamp(h, 0, 99), m |-> clamp(m, 0, 59), s |-> clamp(s, 0, 59)]

hmsToMs(hms) == ((hms.h * 60 + hms.m) * 60 + hms.s) * MsPerSecond

\* new Date(now) with setHours(h, m, s, 0), moved one day on when not after now.
getTodayTargetEpochMs(hms, now) ==
  LET target == (now - (now % DayMs)) + hmsToMs(hms)
  IN IF target <= now THEN target + DayMs ELSE target

makeTimer(id, label) ==
  [id |-> id, label |-> label, mode |-> CountUp, running |-> FALSE,
   startEpochMs |-> Null, baseMs |-> 0, countdownInitialMs |-> 0,
   countToTargetEpochMs |-> Null]

\* The projection that shows a paused CountTo timer live, as if it ran.
computeDisplayMs_PausedLive(timer, now, allowNegative) ==
  LET elapsedRaw == IF timer.running /\ timer.startEpochMs # Null
                    THEN now - timer.startEpochMs ELSE 0
      elapsed == Max(0, elapsedRaw)
      currentBaseMs == timer.baseMs + elapsed
  IN CASE timer.mode = CountUp -> currentBaseMs
       [] timer.mode = CountDown ->
            LET remaining == timer.countdownInitialMs - currentBaseMs
            IN IF allowNegative THEN remaining ELSE Max(0, remaining)
       [] timer.mode = CountTo ->
            IF timer.countToTargetEpochMs = Null THEN 0
            ELSE LET remaining == timer.countToTargetEpochMs - now
                 IN IF allowNegative THEN remaining ELSE Max(0, remaining)
       [] OTHER -> 0

computeDisplayMs(timer, now, allowNegative) ==
  LET elapsedRaw == IF timer.running /\ timer.startEpochMs # Null
                    THEN now - timer.startEpochMs ELSE 0
      elapsed == Max(0, elapsedRaw)
      currentBaseMs == timer.baseMs + elapsed
  IN CASE timer.mode = CountUp -> currentBaseMs
       [] timer.mode = CountDown ->
            LET remaining == timer.countdownInitialMs - currentBaseMs
            IN IF allowNegative THEN remaining ELSE Max(0, remaining)
       [] timer.mode = CountTo ->
            IF timer.countToTargetEpochMs = Null THEN 0
            ELSE LET remaining == IF timer.running
                                  THEN timer.countToTargetEpochMs - now
                                  ELSE timer.baseMs
                 IN IF allowNegative THEN remaining ELSE Max(0, remaining)
       [] OTHER -> 0

(* --------------------------- timer updaters --------------------------- *)

\* Variants of the watchdog's callback, each changed the way a slip in that code
\* would change it.
autoStop_KeepsStart(t, now) ==
  IF ~t.running THEN t
  ELSE IF t.mode = CountDown THEN
         IF computeDisplayMs(t, now, FALSE) > 0 THEN t
         ELSE [t EXCEPT !.running = FALSE, !.baseMs = t.countdownInitialMs]
  ELSE IF t.mode = CountTo THEN
         IF t.countToTargetEpochMs = Null THEN t
         ELSE IF t.countToTargetEpochMs - now > 0 THEN t
         ELSE [t EXCEPT !.running = FALSE, !.baseMs = 0]
  ELSE t

autoStop_NeverAtZero(t, now) ==
  IF ~t.running THEN t
  ELSE IF t.mode = CountDown THEN
         IF computeDisplayMs(t, now, FALSE) >= 0 THEN t
         ELSE [t EXCEPT !.running = FALSE, !.startEpochMs = Null,
                        !.baseMs = t.countdownInitialMs]
  ELSE IF t.mode = CountTo THEN
         IF t.countToTargetEpochMs = Null THEN t
         ELSE IF t.countToTargetEpochMs - now > 0 THEN t
         ELSE [t EXCEPT !.running = FALSE, !.startEpochMs = Null, !.baseMs = 0]
  ELSE t

autoStop_BaseZero(t, now) ==
  IF ~t.running THEN t
  ELSE IF t.mode = CountDown THEN
         IF computeDisplayMs(t, now, FALSE) > 0 THEN t
         ELSE [t EXCEPT !.running = FALSE, !.startEpochMs = Null, !.baseMs = 0]
  ELSE IF t.mode = CountTo THEN
         IF t.countToTargetEpochMs = Null THEN t
         ELSE IF t.countToTargetEpochMs - now > 0 THEN t
         ELSE [t EXCEPT !.running = FALSE, !.startEpochMs = Null, !.baseMs = 0]
  ELSE t

\* The watchdog's map callback (the effect has already returned when
\* allowNegativeTime is on).
autoStop(t, now) ==
  IF ~t.running THEN t
  ELSE IF t.mode = CountDown THEN
         IF computeDisplayMs(t, now, FALSE) > 0 THEN t
         ELSE [t EXCEPT !.running = FALSE, !.startEpochMs = Null,
                        !.baseMs = t.countdownInitialMs]
  ELSE IF t.mode = CountTo THEN
         IF t.countToTargetEpochMs = Null THEN t
         ELSE IF t.countToTargetEpochMs - now > 0 THEN t
         ELSE [t EXCEPT !.running = FALSE, !.startEpochMs = Null, !.baseMs = 0]
  ELSE t

pauseUpdater(t, now) ==
  IF ~t.running THEN t
  ELSE LET elapsed == IF t.startEpochMs # Null THEN now - t.startEpochMs ELSE 0
       IN [t EXCEPT !.running = FALSE, !.startEpochMs = Null,
                    !.baseMs = t.baseMs + elapsed]

\* The clear that resets the targets whatever the clear behaviour.
clearUpdater_AlwaysResets(t, behavior) ==
  [t EXCEPT !.running = FALSE, !.startEpochMs = Null, !.baseMs = 0,
            !.countdownInitialMs = 0, !.countToTargetEpochMs = Null]

clearUpdater(t, behavior) ==
  IF behavior = "keepTarget"
  THEN [t EXCEPT !.running = FALSE, !.startEpochMs = Null, !.baseMs = 0]
  ELSE [t EXCEPT !.running = FALSE, !.startEpochMs = Null, !.baseMs = 0,
                 !.countdownInitialMs = 0, !.countToTargetEpochMs = Null]

\* The typed target applied without the reset of baseMs in CountDown.
applyTyped_KeepsBase(t, digits, now, allowNegative) ==
  IF Len(digits) = 0 THEN t
  ELSE LET hms == parseKeypadDigitsToHms(digits)
           ms == hmsToMs(hms)
       IN CASE t.mode = CountUp ->
                 [t EXCEPT !.running = FALSE, !.startEpochMs = Null, !.baseMs = ms]
            [] t.mode = CountDown ->
                 [t EXCEPT !.running = FALSE, !.startEpochMs = Null,
                           !.countdownInitialMs = ms]
            [] t.mode = CountTo ->
                 LET targetEpochMs == getTodayTargetEpochMs(hms, now)
                     remaining == targetEpochMs - now
                 IN [t EXCEPT !.running = FALSE, !.startEpochMs = Null,
                              !.baseMs = IF allowNegative THEN remaining
                                         ELSE Max(0, remaining),
                              !.countToTargetEpochMs = targetEpochMs]
            [] OTHER -> t

\* The typed target applied to a copy of the timer (lines 301-319).
applyTyped(t, digits, now, allowNegative) ==
  IF Len(digits) = 0 THEN t
  ELSE LET hms == parseKeypadDigitsToHms(digits)
           ms == hmsToMs(hms)
       IN CASE t.mode = CountUp ->
                 [t EXCEPT !.running = FALSE, !.startEpochMs = Null, !.baseMs = ms]
            [] t.mode = CountDown ->
                 [t EXCEPT !.running = FALSE, !.startEpochMs = Null, !.baseMs = 0,
                           !.countdownInitialMs = ms]
            [] t.mode = CountTo ->
                 LET targetEpochMs == getTodayTargetEpochMs(hms, now)
                     remaining == targetEpochMs - now
                 IN [t EXCEPT !.running = FALSE, !.startEpochMs = Null,
                              !.baseMs = IF allowNegative THEN remaining
                                         ELSE Max(0, remaining),
                              !.countToTargetEpochMs = targetEpochMs]
            [] OTHER -> t

\* A start that leaves baseMs as the pause left it.
resnapshot_Skipped(t, now, allowNegative) == t

\* The re-snapshot of a CountTo timer's baseMs (lines 321-324).
resnapshot(t, now, allowNegative) ==
  IF t.mode = CountTo /\ t.countToTargetEpochMs # Null
  THEN LET remaining == t.countToTargetEpochMs - now
       IN [t EXCEPT !.baseMs = IF allowNegative THEN remaining ELSE Max(0, remaining)]
  ELSE t

\* The start that refuses a CountTo timer whose target has passed while negative
\* time is not allowed.
startUpdater_RefusesPassedTarget(t, digits, now, allowNegative) ==
  IF t.running THEN t
  ELSE LET next == resnapshot(applyTyped(t, digits, now, allowNegative),
                              now, allowNegative)
       IN IF /\ next.mode = CountTo
             /\ next.countToTargetEpochMs # Null
             /\ next.countToTargetEpochMs <= now
             /\ ~allowNegative
          THEN t
          ELSE [next EXCEPT !.running = TRUE, !.startEpochMs = now]

startUpdater(t, digits, now, allowNegative) ==
  IF t.running THEN t
  ELSE LET next == resnapshot(applyTyped(t, digits, now, allowNegative),
                              now, allowNegative)
       IN [next EXCEPT !.running = TRUE, !.startEpochMs = now]

\* The mode switch that throws the banked time away whatever the new mode.
setModeUpdater_DiscardsBase(t, mode, now) ==
  [t EXCEPT !.mode = mode, !.running = FALSE, !.startEpochMs = Null, !.baseMs = 0]

\* The mode switch that also forgets the targets of the timer.
setModeUpdater_ForgetsTargets(t, mode, now) ==
  LET elapsed == IF t.running /\ t.startEpochMs # Null
                 THEN now - t.startEpochMs ELSE 0
  IN [t EXCEPT !.mode = mode, !.running = FALSE, !.startEpochMs = Null,
               !.baseMs = IF mode = CountUp THEN t.baseMs + elapsed ELSE 0,
               !.countdownInitialMs = 0, !.countToTargetEpochMs = Null]

setModeUpdater(t, mode, now) ==
  LET wasRunning == t.running
      elapsed == IF wasRunning /\ t.startEpochMs # Null
                 THEN now - t.startEpochMs ELSE 0
      nextBaseMs == IF wasRunning THEN t.baseMs + elapsed ELSE t.baseMs
  IN [t EXCEPT !.mode = mode, !.running = FALSE, !.startEpochMs = Null,
               !.baseMs = IF mode = CountUp THEN nextBaseMs ELSE 0]

(* ------------------------------ helpers ------------------------------- *)

TimerIds(ts) == {ts[i].id : i \in DOMAIN ts}

\* The map that lets the updater loose on every timer of the list.
updateTimer_EveryTimer(ts, timerId, updated) == updated

\* prev.map((t) => (t.id === timerId ? updater(t) : t)); updated[i] is
\* updater(ts[i]).
updateTimer(ts, timerId, updated) ==
  [i \in DOMAIN ts |-> IF ts[i].id = timerId THEN updated[i] ELSE ts[i]]

\* The filter with its test inverted (=== for !==).
RECURSIVE FilterOut_Inverted(_, _)
FilterOut_Inverted(ts, timerId) ==
  IF ts = <<>> THEN <<>>
  ELSE IF Head(ts).id # timerId THEN FilterOut_Inverted(Tail(ts), timerId)
  ELSE <<Head(ts)>> \o FilterOut_Inverted(Tail(ts), timerId)

\* prev.filter((t) => t.id !== timerId)
RECURSIVE FilterOut(_, _)
FilterOut(ts, timerId) ==
  IF ts = <<>> THEN <<>>
  ELSE IF Head(ts).id = timerId THEN FilterOut(Tail(ts), timerId)
  ELSE <<Head(ts)>> \o FilterOut(Tail(ts), timerId)

\* deleteTimer without its guard on the last timer.
deleteTimerList_NoLastGuard(prev, timerId) ==
  LET next == FilterOut(prev, timerId)
  IN IF Len(next) = Len(prev) THEN prev ELSE next

\* The setTimers updater of deleteTimer: the list it returns.
deleteTimerList(prev, timerId) ==
  IF Len(prev) <= 1 THEN prev
  ELSE LET next == FilterOut(prev, timerId)
       IN IF Len(next) = Len(prev) THEN prev ELSE next

\* deleteTimer without the reassignment of the selection.
deleteTimerSelection_Keeps(prev, timerId, selected) == selected

\* The selection deleteTimer leaves: setSelectedTimerId(next[0].id) when the
\* deleted timer was the selected one.
deleteTimerSelection(prev, timerId, selected) ==
  LET next == deleteTimerList(prev, timerId)
  IN IF next # prev /\ selected = timerId /\ Len(next) > 0
     THEN next[1].id ELSE selected

\* addTimer taking the new id from the list's length instead of the counter.
addTimerResult_IdFromLength(prev, n) ==
  [timers |-> Append(prev, makeTimer(Len(prev) + 1, Len(prev) + 1)),
   selectedTimerId |-> Len(prev) + 1,
   nextTimerNumber |-> n + 1]

\* addTimer with n = nextTimerNumberRef.current: the list, the selection and the
\* counter it leaves.
addTimerResult(prev, n) ==
  [timers |-> Append(prev, makeTimer(n, n)),
   selectedTimerId |-> n,
   nextTimerNumber |-> n + 1]

\* timers.find((t) => t.id === selectedTimerId) ?? timers[0]
selectedTimer ==
  IF \E i \in DOMAIN timers : timers[i].id = selectedTimerId
  THEN timers[CHOOSE i \in DOMAIN timers :
                /\ timers[i].id = selectedTimerId
                /\ \A j \in DOMAIN timers : timers[j].id = selectedTimerId => i <= j]
  ELSE timers[1]

\* The watchdog without its early return on allowNegativeTime.
watchdog_IgnoresOption(ts, allowNegative, now) ==
  [i \in DOMAIN ts |-> autoStop(ts[i], now)]

\* The watchdog effect, run with the value of allowNegativeTime just rendered.
watchdog(ts, allowNegative, now) ==
  IF allowNegative THEN ts ELSE [i \in DOMAIN ts |-> autoStop(ts[i], now)]

(* ------------------------------- state -------------------------------- *)

\* The state after construction; `limits` holds the bounds of the run and never
\* changes: the number of intents it may hold, the length up to which
\* keypad buttons are pressed, and the buttons pressed.
InitWith(lim) ==
  /\ timers = [i \in 1..InitialTimerCount |-> makeTimer(i, i)]
  /\ selectedTimerId = 1
  /\ keypadDigits = <<>>
  /\ nextTimerNumber = InitialTimerCount + 1
  /\ clearBehavior = "resetAll"
  /\ allowNegativeTime = FALSE
  /\ clock = 0
  /\ nowEpochMs = 0
  /\ issuedIds = 1..InitialTimerCount
  /\ intents = 0
  /\ limits = lim

Init ==
  InitWith([maxIntents |-> MaxIntents, maxTyped |-> MaxTyped,
            digits |-> 1..MaxDigit])

(* ------------------------------ actions ------------------------------- *)

\* One more user intent is taken.
Intent ==
  /\ limits' = limits
  /\ intents < limits.maxIntents
  /\ intents' = intents + 1

\* The wall clock moves on.
AdvanceClock ==
  /\ clock + ClockStep <= ClockStep * MaxClockSteps
  /\ clock' = clock + ClockStep
  /\ UNCHANGED <<timers, selectedTimerId, keypadDigits, nextTimerNumber,
                 clearBehavior, allowNegativeTime, nowEpochMs, issuedIds, intents,
                 limits>>

\* The wall clock is set back (Date.now() is not monotonic).
SetClockBack ==
  /\ clock >= ClockStep
  /\ clock' = clock - ClockStep
  /\ UNCHANGED <<timers, selectedTimerId, keypadDigits, nextTimerNumber,
                 clearBehavior, allowNegativeTime, nowEpochMs, issuedIds, intents,
                 limits>>

\* The interval callback setNowEpochMs(Date.now()), with the watchdog effect that
\* the changed nowEpochMs triggers (the effect's own Date.now() is taken at the
\* same instant).
Tick ==
  /\ nowEpochMs' = clock
  /\ timers' = IF clock # nowEpochMs
               THEN watchdog(timers, allowNegativeTime, clock) ELSE timers
  /\ UNCHANGED <<selectedTimerId, keypadDigits, nextTimerNumber,
                 clearBehavior, allowNegativeTime, clock, issuedIds, intents,
                 limits>>

AddTimer ==
  /\ Intent
  /\ nextTimerNumber <= MaxTimerNumber
  /\ LET r == addTimerResult(timers, nextTimerNumber)
     IN /\ nextTimerNumber' = r.nextTimerNumber
        /\ timers' = r.timers
        /\ selectedTimerId' = r.selectedTimerId
        /\ issuedIds' = issuedIds \cup {r.selectedTimerId}
  /\ UNCHANGED <<keypadDigits, clearBehavior, allowNegativeTime, nowEpochMs, clock>>

\* deleteTimer as the store's operation: its own guard, not the hidden button,
\* rejects the last timer.
DeleteTimer(timerId) ==
  /\ Intent
  /\ timers' = deleteTimerList(timers, timerId)
  /\ selectedTimerId' = deleteTimerSelection(timers, timerId, selectedTimerId)
  /\ UNCHANGED <<keypadDigits, nextTimerNumber, clearBehavior, allowNegativeTime,
                 nowEpochMs, clock, issuedIds>>

SelectTimer(timerId) ==
  /\ Intent
  /\ selectedTimerId' = timerId
  /\ UNCHANGED <<timers, keypadDigits, nextTimerNumber, clearBehavior,
                 allowNegativeTime, nowEpochMs, clock, issuedIds>>

\* updateTimer(timerId, updater) with the pause updater.
PauseTimer(timerId) ==
  /\ Intent
  /\ timers' = updateTimer(timers, timerId,
                           [i \in DOMAIN timers |-> pauseUpdater(timers[i], clock)])
  /\ UNCHANGED <<selectedTimerId, keypadDigits, nextTimerNumber, clearBehavior,
                 allowNegativeTime, nowEpochMs, clock, issuedIds>>

ClearTimer(timerId) ==
  /\ Intent
  /\ timers' = updateTimer(timers, timerId,
                           [i \in DOMAIN timers |->
                              clearUpdater(timers[i], clearBehavior)])
  /\ keypadDigits' = <<>>
  /\ UNCHANGED <<selectedTimerId, nextTimerNumber, clearBehavior,
                 allowNegativeTime, nowEpochMs, clock, issuedIds>>

StartSelectedTimer ==
  /\ Intent
  /\ timers' = updateTimer(timers, selectedTimerId,
                           [i \in DOMAIN timers |->
                              startUpdater(timers[i], keypadDigits, clock,
                                           allowNegativeTime)])
  /\ keypadDigits' = <<>>
  /\ UNCHANGED <<selectedTimerId, nextTimerNumber, clearBehavior,
                 allowNegativeTime, nowEpochMs, clock, issuedIds>>

SetModeForSelectedTimer(mode) ==
  /\ Intent
  /\ timers' = updateTimer(timers, selectedTimerId,
                           [i \in DOMAIN timers |->
                              setModeUpdater(timers[i], mode, clock)])
  /\ UNCHANGED <<selectedTimerId, keypadDigits, nextTimerNumber, clearBehavior,
                 allowNegativeTime, nowEpochMs, clock, issuedIds>>

AppendDigit(d) ==
  /\ Intent
  /\ Len(keypadDigits) < limits.maxTyped
  /\ keypadDigits' = SliceLast(Append(keypadDigits, d), KeypadLen)
  /\ UNCHANGED <<timers, selectedTimerId, nextTimerNumber, clearBehavior,
                 allowNegativeTime, nowEpochMs, clock, issuedIds>>

\* DEL is disabled on an empty buffer.
DeleteDigit ==
  /\ Intent
  /\ Len(keypadDigits) > 0
  /\ keypadDigits' = SubSeq(keypadDigits, 1, Len(keypadDigits) - 1)
  /\ UNCHANGED <<timers, selectedTimerId, nextTimerNumber, clearBehavior,
                 allowNegativeTime, nowEpochMs, clock, issuedIds>>

ClearDigits ==
  /\ Intent
  /\ keypadDigits' = <<>>
  /\ UNCHANGED <<timers, selectedTimerId, nextTimerNumber, clearBehavior,
                 allowNegativeTime, nowEpochMs, clock, issuedIds>>

SetClearBehavior(v) ==
  /\ Intent
  /\ clearBehavior' = v
  /\ UNCHANGED <<timers, selectedTimerId, keypadDigits, nextTimerNumber,
                 allowNegativeTime, nowEpochMs, clock, issuedIds>>

\* The option change, with the watchdog effect that the changed value triggers.
SetAllowNegativeTime(v) ==
  /\ Intent
  /\ allowNegativeTime' = v
  /\ timers' = IF v # allowNegativeTime THEN watchdog(timers, v, clock) ELSE timers
  /\ UNCHANGED <<selectedTimerId, keypadDigits, nextTimerNumber, clearBehavior,
                 nowEpochMs, clock, issuedIds>>

Next ==
  \/ AdvanceClock
  \/ SetClockBack
  \/ Tick
  \/ AddTimer
  \/ \E id \in TimerIds(timers) : DeleteTimer(id)
  \/ \E id \in TimerIds(timers) : SelectTimer(id)
  \/ PauseTimer(selectedTimerId)
  \/ ClearTimer(selectedTimerId)
  \/ StartSelectedTimer
  \/ \E mode \in TimerMode : SetModeForSelectedTimer(mode)
  \/ \E d \in limits.digits : AppendDigit(d)
  \/ DeleteDigit
  \/ ClearDigits
  \/ \E v \in ClearBehaviors : SetClearBehavior(v)
  \/ \E v \in BOOLEAN : SetAllowNegativeTime(v)

Spec == Init /\ [][Next]_vars

\* Runs of the intents on the selected timer alone (no add, delete or select),
\* followed further than Spec follows them.
InitSelected ==
  InitWith([maxIntents |-> MaxSelectedIntents, maxTyped |-> MaxTyped,
            digits |-> 1..MaxDigit])

NextSelected ==
  \/ AdvanceClock
  \/ SetClockBack
  \/ Tick
  \/ PauseTimer(selectedTimerId)
  \/ ClearTimer(selectedTimerId)
  \/ StartSelectedTimer
  \/ \E mode \in TimerMode : SetModeForSelectedTimer(mode)
  \/ \E d \in limits.digits : AppendDigit(d)
  \/ \E v \in ClearBehaviors : SetClearBehavior(v)
  \/ \E v \in BOOLEAN : SetAllowNegativeTime(v)

SpecSelected == InitSelected /\ [][NextSelected]_vars

\* Runs that type a target of up to six digits, over the buttons 0 and 9, into
\* the selected timer and start it.
InitCountTo ==
  InitWith([maxIntents |-> MaxCountToIntents, maxTyped |-> KeypadLen,
            digits |-> {0, TopDigit}])

NextCountTo ==
  \/ AdvanceClock
  \/ Tick
  \/ StartSelectedTimer
  \/ \E mode \in TimerMode : SetModeForSelectedTimer(mode)
  \/ \E d \in limits.digits : AppendDigit(d)

SpecCountTo == InitCountTo /\ [][NextCountTo]_vars

\* Runs of the intents on the selected timer and of the negative-time option
\* while the wall clock only moves forward.
InitForward ==
  InitWith([maxIntents |-> MaxForwardIntents, maxTyped |-> MaxTyped,
            digits |-> 1..MaxDigit])

NextForward ==
  \/ AdvanceClock
  \/ Tick
  \/ PauseTimer(selectedTimerId)
  \/ ClearTimer(selectedTimerId)
  \/ StartSelectedTimer
  \/ \E mode \in TimerMode : SetModeForSelectedTimer(mode)
  \/ \E d \in limits.digits : AppendDigit(d)
  \/ \E v \in BOOLEAN : SetAllowNegativeTime(v)

SpecForward == InitForward /\ [][NextForward]_vars

\* Runs of the intents on the two timers the program starts with, each selected
\* in turn, while the wall clock moves forward.
InitPair ==
  InitWith([maxIntents |-> MaxPairIntents, maxTyped |-> MaxTyped,
            digits |-> 1..MaxDigit])

NextPair ==
  \/ AdvanceClock
  \/ Tick
  \/ \E id \in TimerIds(timers) : SelectTimer(id)
  \/ PauseTimer(selectedTimerId)
  \/ ClearTimer(selectedTimerId)
  \/ StartSelectedTimer
  \/ \E mode \in TimerMode : SetModeForSelectedTimer(mode)
  \/ \E d \in limits.digits : AppendDigit(d)

SpecPair == InitPair /\ [][NextPair]_vars

\* The keypad alone: presses of the buttons 0, 1, 5 and 9, whose pairs fall on
\* both sides of 59, of DEL and of CLR, on buffers of any length.
InitKeypad ==
  InitWith([maxIntents |-> MaxKeypadPresses, maxTyped |-> KeypadLen + 1,
            digits |-> {0, 1, 5, TopDigit}])

NextKeypad ==
  \/ \E d \in limits.digits : AppendDigit(d)
  \/ DeleteDigit
  \/ ClearDigits

SpecKeypad == InitKeypad /\ [][NextKeypad]_vars

(* ------------------------- what the claims read ------------------------ *)

\* The instants the wall clock can show.
NowValues == {k * ClockStep : k \in 0..MaxClockSteps}

\* The step ran the watchdog's body: the effect's dependencies (nowEpochMs,
\* allowNegativeTime) changed and the option it then read is off.
WatchdogRan ==
  /\ nowEpochMs' # nowEpochMs \/ allowNegativeTime' # allowNegativeTime
  /\ ~allowNegativeTime'

\* The step is one of the intents that stop the selected timer.
UserStop ==
  \/ PauseTimer(selectedTimerId)
  \/ ClearTimer(selectedTimerId)
  \/ \E mode \in TimerMode : SetModeForSelectedTimer(mode)

(* ------------------------------- claims -------------------------------- *)

\* C1: in every reachable state every timer is running if and only if its
\* startEpochMs is set; no interleaving of intents, ticks and watchdog runs
\* leaves a torn timer.
C1_RunningIffStarted ==
  \A i \in DOMAIN timers : timers[i].running <=> timers[i].startEpochMs # Null

\* A CountDown timer that the watchdog stopped (baseMs = countdownInitialMs > 0)
\* and that was then started again.
C1_Witness ==
  \E i \in DOMAIN timers :
    /\ timers[i].mode = CountDown /\ timers[i].running
    /\ timers[i].startEpochMs = clock
    /\ timers[i].countdownInitialMs > 0
    /\ timers[i].baseMs = timers[i].countdownInitialMs

C2_NeverNegative ==
  ~allowNegativeTime =>
    \A i \in DOMAIN timers :
      timers[i].mode = CountDown =>
        \A now \in NowValues \cup {nowEpochMs} :
          computeDisplayMs(timers[i], now, allowNegativeTime) >= 0

C2_StopsExactlyAtZero ==
  WatchdogRan =>
    /\ DOMAIN timers' = DOMAIN timers
    /\ \A i \in DOMAIN timers :
         (timers[i].running /\ timers[i].mode = CountDown) =>
           /\ ~timers'[i].running <=> computeDisplayMs(timers[i], clock, FALSE) = 0
           /\ timers'[i].running => computeDisplayMs(timers'[i], clock', FALSE) > 0

\* C2: with allowNegativeTime off a CountDown timer's displayMs is never below
\* 0, and a watchdog run stops a running CountDown timer exactly when its
\* clamped displayMs is 0: it leaves it running while displayMs > 0 and leaves
\* no CountDown timer running whose displayMs is 0.
C2_CountDownStopsAtZero == []C2_NeverNegative /\ [][C2_StopsExactlyAtZero]_vars

\* A CountDown timer still running after a tick later than its start, its
\* displayMs above 0, with negative time off.
C2_Witness ==
  /\ ~allowNegativeTime
  /\ \E i \in DOMAIN timers :
       /\ timers[i].mode = CountDown /\ timers[i].running
       /\ timers[i].startEpochMs < nowEpochMs /\ nowEpochMs = clock
       /\ computeDisplayMs(timers[i], nowEpochMs, FALSE) > 0

C3_StoppedState ==
  WatchdogRan =>
    \A i \in DOMAIN timers :
      (timers[i].running /\ ~timers'[i].running) =>
        LET t == timers[i]
            u == timers'[i]
        IN /\ u.startEpochMs = Null
           /\ t.mode \in {CountDown, CountTo}
           /\ t.mode = CountDown => u.baseMs = t.countdownInitialMs
           /\ t.mode = CountTo =>
                /\ u.baseMs = 0
                /\ t.countToTargetEpochMs # Null
                /\ clock >= t.countToTargetEpochMs
           /\ u = [t EXCEPT !.running = FALSE, !.startEpochMs = Null,
                            !.baseMs = u.baseMs]
           /\ \A now \in NowValues : \A a \in BOOLEAN :
                computeDisplayMs(u, now, a) = 0

C3_StaysUntilIntent ==
  intents' = intents =>
    \A i \in DOMAIN timers :
      ~timers[i].running => (i \in DOMAIN timers' /\ timers'[i] = timers[i])

\* C3: a timer the watchdog stops ends with running=false, startEpochMs=null,
\* baseMs = countdownInitialMs (CountDown) or 0 (CountTo, stopped at now >=
\* target), every other field unchanged; its displayMs is then 0 at every now,
\* and a step that is no user intent leaves a stopped timer as it is.
C3_WatchdogStop == [][C3_StoppedState]_vars /\ [][C3_StaysUntilIntent]_vars

\* A CountTo timer stopped at its target, seen by a tick at or after the target.
C3_Witness ==
  /\ ~allowNegativeTime
  /\ \E i \in DOMAIN timers :
       /\ timers[i].mode = CountTo /\ ~timers[i].running
       /\ timers[i].countToTargetEpochMs # Null
       /\ timers[i].countToTargetEpochMs <= nowEpochMs
       /\ timers[i].baseMs = 0
       /\ intents = 3

C4_OnlyWatchdogStops ==
  ~UserStop =>
    \A i \in DOMAIN timers :
      (i \in DOMAIN timers' /\ timers'[i].id = timers[i].id
         /\ timers[i].running /\ ~timers'[i].running) =>
        /\ ~allowNegativeTime'
        /\ timers[i].mode \in {CountDown, CountTo}

C4_SkippedWhenAllowed ==
  ((nowEpochMs' # nowEpochMs \/ allowNegativeTime' # allowNegativeTime)
     /\ allowNegativeTime') => timers' = timers

\* C4: without a pause, clear or setMode a timer goes from running to not
\* running only if allowNegativeTime is off and its mode is CountDown or
\* CountTo; a CountUp timer is never auto-stopped, and with allowNegativeTime
\* on a watchdog run changes no timer.
C4_AutoStopOnlyWhenDisallowed ==
  [][C4_OnlyWatchdogStops]_vars /\ [][C4_SkippedWhenAllowed]_vars

\* With negative time allowed a CountDown timer runs past zero: a tick after its
\* start shows a negative displayMs.
C4_Witness ==
  /\ allowNegativeTime
  /\ \E i \in DOMAIN timers :
       /\ timers[i].mode = CountDown /\ timers[i].running
       /\ timers[i].startEpochMs < nowEpochMs
       /\ computeDisplayMs(timers[i], nowEpochMs, allowNegativeTime) < 0

C5_NeverEmpty == Len(timers) >= 1

C5_LastDeleteRejected ==
  \A id \in TimerIds(timers) :
    (Len(timers) = 1 /\ DeleteTimer(id)) =>
      (timers' = timers /\ selectedTimerId' = selectedTimerId)

\* C5: the timer list is never empty, and deleteTimer applied when exactly one
\* timer remains leaves the list and the selection unchanged.
C5_AtLeastOneTimer == []C5_NeverEmpty /\ [][C5_LastDeleteRejected]_vars

\* One timer is left and further intents (among them deleteTimer on it) were taken.
C5_Witness == Len(timers) = 1 /\ intents = MaxIntents

\* C6: in every reachable state the selected id is the id of exactly one timer
\* of the list, so the timer the intents act on is the selected one.
C6_SelectionResolves ==
  /\ selectedTimerId \in TimerIds(timers)
  /\ Cardinality({i \in DOMAIN timers : timers[i].id = selectedTimerId}) = 1
  /\ selectedTimer.id = selectedTimerId

\* The added timer 3 was selected and then deleted: the selection fell back to
\* the first timer.
C6_Witness ==
  /\ Len(timers) = 2 /\ timers[1].id = 1 /\ timers[2].id = 2
  /\ nextTimerNumber = 4 /\ intents = 2
  /\ selectedTimerId = 1

C7_DeleteStep ==
  \A id \in TimerIds(timers) :
    (Len(timers) > 1 /\ DeleteTimer(id)) =>
      LET k == CHOOSE i \in DOMAIN timers : timers[i].id = id
      IN /\ Len(timers') = Len(timers) - 1
         /\ \A i \in 1..(Len(timers) - 1) :
              timers'[i] = timers[IF i < k THEN i ELSE i + 1]
         /\ selectedTimerId' = IF selectedTimerId = id THEN timers'[1].id
                               ELSE selectedTimerId

\* C7: deleteTimer(id) with more than one timer removes exactly that timer and
\* keeps the others unchanged and in order; the selection becomes the first
\* remaining timer if the deleted one was selected and is unchanged otherwise.
C7_DeleteRemovesExactlyOne == [][C7_DeleteStep]_vars

\* The middle one of three timers was deleted while selected.
C7_Witness ==
  /\ Len(timers) = 2 /\ timers[1].id = 1 /\ timers[2].id = 3
  /\ selectedTimerId = 1 /\ intents = 3

C8_DistinctIds ==
  /\ \A i, j \in DOMAIN timers : i # j => timers[i].id # timers[j].id
  /\ TimerIds(timers) \subseteq issuedIds

C8_AddStep ==
  (nextTimerNumber' # nextTimerNumber \/ Len(timers') > Len(timers)) =>
    LET new == timers'[Len(timers')]
    IN /\ Len(timers') = Len(timers) + 1
       /\ SubSeq(timers', 1, Len(timers)) = timers
       /\ new.mode = CountUp /\ ~new.running /\ new.startEpochMs = Null
       /\ new.baseMs = 0 /\ new.countdownInitialMs = 0
       /\ new.countToTargetEpochMs = Null
       /\ selectedTimerId' = new.id
       /\ new.id \notin issuedIds
       /\ issuedIds' = issuedIds \cup {new.id}

\* C8: addTimer appends one fresh CountUp timer (not running, no start, all
\* accumulators zero, no target), selects it, leaves the others unchanged and
\* gives it an id never issued before; ids in the list are pairwise distinct.
C8_AddAppendsFresh == []C8_DistinctIds /\ [][C8_AddStep]_vars

\* Timer 3 was added to a list from which timer 1 had been deleted.
C8_Witness ==
  /\ Len(timers) = 2 /\ timers[1].id = 2
  /\ timers[2] = makeTimer(3, 3)
  /\ selectedTimerId = 3 /\ issuedIds = {1, 2, 3}

\* C9: for a running timer, pause at now followed at once by start at the same
\* now with an empty keypad buffer leaves displayMs at now, countdownInitialMs
\* and countToTargetEpochMs unchanged.
C9_PauseResumeKeepsDisplay ==
  \A i \in DOMAIN timers :
    timers[i].running =>
      LET t == timers[i]
          resumed == startUpdater(pauseUpdater(t, clock), <<>>, clock,
                                  allowNegativeTime)
      IN /\ computeDisplayMs(resumed, clock, allowNegativeTime)
              = computeDisplayMs(t, clock, allowNegativeTime)
         /\ resumed.countdownInitialMs = t.countdownInitialMs
         /\ resumed.countToTargetEpochMs = t.countToTargetEpochMs

C10_PauseStep ==
  \A id \in TimerIds(timers) :
    PauseTimer(id) =>
      \A i \in DOMAIN timers :
        timers[i].id = id =>
          LET t == timers[i]
          IN IF ~t.running THEN timers'[i] = t
             ELSE timers'[i] =
                    [t EXCEPT !.running = FALSE, !.startEpochMs = Null,
                              !.baseMs = t.baseMs + Max(0, clock - t.startEpochMs)]

\* C10: pause on a timer that is not running changes nothing; pause at now on a
\* running timer sets running=false, startEpochMs=null and baseMs to the old
\* baseMs + max(0, now - startEpochMs), so it never decreases baseMs.
C10_PauseBanksElapsed == [][C10_PauseStep]_vars

(* ------------------------------- C11 ---------------------------------- *)

\* The spec's example: CountUp with baseMs = 5000, running for 2000 ms.
C11_Example ==
  [makeTimer(1, 1) EXCEPT !.running = TRUE, !.startEpochMs = 0, !.baseMs = 5000]

C11_SetModeStep ==
  \A mode \in TimerMode :
    SetModeForSelectedTimer(mode) =>
      \A i \in DOMAIN timers :
        (timers[i].id = selectedTimerId /\ timers[i].running) =>
          timers'[i] =
            [timers[i] EXCEPT
               !.mode = mode, !.running = FALSE, !.startEpochMs = Null,
               !.baseMs = IF mode = CountUp
                          THEN timers[i].baseMs + (clock - timers[i].startEpochMs)
                          ELSE 0]

\* C11: setMode(mode) at now on a running timer banks the elapsed time
\* (baseMs + (now - startEpochMs)); the resulting baseMs is the banked value when
\* the new mode is CountUp and 0 when it is CountDown or CountTo; the timer ends
\* with the new mode, running = false and startEpochMs = null, and nothing else
\* changed.  The example of the spec ends with baseMs = 0 and running = false.
C11_SetModeBanks ==
  /\ [](/\ setModeUpdater(C11_Example, CountDown, 2000).baseMs = 0
        /\ ~setModeUpdater(C11_Example, CountDown, 2000).running
        /\ setModeUpdater(C11_Example, CountUp, 2000).baseMs = 7000)
  /\ [][C11_SetModeStep]_vars

\* A timer given a countdown target in CountDown, started, and switched to CountUp
\* while running: the 600 ms it ran are banked, the target is still there.
C11_Witness ==
  \E i \in DOMAIN timers :
    /\ timers[i].mode = CountUp
    /\ ~timers[i].running
    /\ timers[i].countdownInitialMs = MsPerSecond
    /\ timers[i].baseMs = ClockStep
    /\ intents = 4

(* ------------------------------- C12 ---------------------------------- *)

\* A step of the sequences the claim speaks of: setMode, pause, start with an
\* empty keypad buffer, or a run of the watchdog (tick, option change).
C12_TargetKeepingStep ==
  \/ \E mode \in TimerMode : SetModeForSelectedTimer(mode)
  \/ PauseTimer(selectedTimerId)
  \/ (keypadDigits = <<>> /\ StartSelectedTimer)
  \/ Tick
  \/ \E v \in BOOLEAN : SetAllowNegativeTime(v)

C12_TargetsKept ==
  C12_TargetKeepingStep =>
    /\ DOMAIN timers' = DOMAIN timers
    /\ \A i \in DOMAIN timers :
         /\ timers'[i].id = timers[i].id
         /\ timers'[i].countdownInitialMs = timers[i].countdownInitialMs
         /\ timers'[i].countToTargetEpochMs = timers[i].countToTargetEpochMs

\* C12: setMode never changes countdownInitialMs or countToTargetEpochMs; every
\* step of a sequence of setMode, pause and start-without-typed-digits intents and
\* watchdog runs leaves both fields of every timer as they were, so they are the
\* same after the sequence as before it, and switching away from a mode and back
\* finds the same target.
C12_SetModeKeepsTargets == [][C12_TargetsKept]_vars

\* A timer holding both targets: typed and started in CountDown, switched to
\* CountTo while running, typed and started again; the countdown target outlived
\* the switch and the start.
C12_Witness ==
  \E i \in DOMAIN timers :
    /\ timers[i].mode = CountTo
    /\ timers[i].running
    /\ timers[i].countdownInitialMs = MsPerSecond
    /\ timers[i].countToTargetEpochMs # Null
    /\ intents = 6

(* ------------------------------- C13 ---------------------------------- *)

C13_ClearStep ==
  ClearTimer(selectedTimerId) =>
    /\ keypadDigits' = <<>>
    /\ DOMAIN timers' = DOMAIN timers
    /\ \A i \in DOMAIN timers :
         timers[i].id = selectedTimerId =>
           /\ ~timers'[i].running
           /\ timers'[i].startEpochMs = Null
           /\ timers'[i].baseMs = 0
           /\ timers'[i].mode = timers[i].mode
           /\ timers'[i].id = timers[i].id
           /\ timers'[i].label = timers[i].label
           /\ clearBehavior = "resetAll" =>
                /\ timers'[i].countdownInitialMs = 0
                /\ timers'[i].countToTargetEpochMs = Null
           /\ clearBehavior = "keepTarget" =>
                /\ timers'[i].countdownInitialMs = timers[i].countdownInitialMs
                /\ timers'[i].countToTargetEpochMs = timers[i].countToTargetEpochMs

\* C13: clear on the selected timer sets running = false, startEpochMs = null and
\* baseMs = 0 and empties the keypad buffer; with clearBehavior resetAll it also
\* sets countdownInitialMs = 0 and countToTargetEpochMs = null, with keepTarget it
\* leaves both unchanged; mode, id and label are unchanged.
C13_ClearResets == [][C13_ClearStep]_vars

\* A CountTo timer with a typed target, started and then cleared under
\* keepTarget: stopped with baseMs = 0, the target still there.
C13_Witness ==
  /\ clearBehavior = "keepTarget"
  /\ keypadDigits = <<>>
  /\ intents = 5
  /\ \E i \in DOMAIN timers :
       /\ timers[i].id = selectedTimerId
       /\ timers[i].mode = CountTo
       /\ ~timers[i].running
       /\ timers[i].startEpochMs = Null
       /\ timers[i].baseMs = 0
       /\ timers[i].countToTargetEpochMs = MsPerSecond

(* ------------------------------- C14 ---------------------------------- *)

\* The duration the keypad buffer parses to.
C14_TypedMs == hmsToMs(parseKeypadDigitsToHms(keypadDigits))

C14_StartStep ==
  StartSelectedTimer =>
    /\ DOMAIN timers' = DOMAIN timers
    /\ \A i \in DOMAIN timers :
         (timers[i].id = selectedTimerId /\ ~timers[i].running) =>
           /\ timers'[i].running
           /\ timers'[i].startEpochMs = clock
           /\ timers'[i].mode = timers[i].mode
           /\ keypadDigits' = <<>>
           /\ (keypadDigits # <<>> /\ timers[i].mode = CountUp) =>
                timers'[i] = [timers[i] EXCEPT !.running = TRUE,
                                               !.startEpochMs = clock,
                                               !.baseMs = C14_TypedMs]
           /\ (keypadDigits # <<>> /\ timers[i].mode = CountDown) =>
                timers'[i] = [timers[i] EXCEPT !.running = TRUE,
                                               !.startEpochMs = clock,
                                               !.baseMs = 0,
                                               !.countdownInitialMs = C14_TypedMs]
           /\ (keypadDigits = <<>> /\ timers[i].mode \in {CountUp, CountDown}) =>
                timers'[i] = [timers[i] EXCEPT !.running = TRUE,
                                               !.startEpochMs = clock]

\* C14: startSelected at now on a non-running selected timer with a non-empty
\* keypad buffer parsing to duration D sets baseMs = D in CountUp
\* (countdownInitialMs unchanged) and countdownInitialMs = D, baseMs = 0 in
\* CountDown; in every mode the timer ends running with startEpochMs = now and the
\* keypad buffer ends empty.  With an empty buffer, start in CountUp or CountDown
\* changes only running and startEpochMs.
C14_StartAppliesTyped == [][C14_StartStep]_vars

\* A CountDown timer that ran and was paused with time banked, then started with
\* a typed duration: baseMs is back to 0 and the duration is the new target.
C14_Witness ==
  /\ keypadDigits = <<>>
  /\ intents = 5
  /\ clock > 0
  /\ \E i \in DOMAIN timers :
       /\ timers[i].id = selectedTimerId
       /\ timers[i].mode = CountDown
       /\ timers[i].running
       /\ timers[i].startEpochMs = clock
       /\ timers[i].baseMs = 0
       /\ timers[i].countdownInitialMs = MsPerSecond

(* ------------------------------- C15 ---------------------------------- *)

\* Today's occurrence of the typed time of day: local midnight plus h, m, s.
C15_TodayOccurrence ==
  (clock - (clock % DayMs)) + hmsToMs(parseKeypadDigitsToHms(keypadDigits))

C15_StartStep ==
  StartSelectedTimer =>
    \A i \in DOMAIN timers :
      (/\ timers[i].id = selectedTimerId
       /\ ~timers[i].running
       /\ timers[i].mode = CountTo
       /\ keypadDigits # <<>>) =>
        LET target == timers'[i].countToTargetEpochMs
        IN /\ target = IF C15_TodayOccurrence > clock
                       THEN C15_TodayOccurrence
                       ELSE C15_TodayOccurrence + DayMs
           /\ target > clock
           /\ target <= clock + DayMs

C15_RunningDisplay ==
  \A i \in DOMAIN timers :
    (/\ timers[i].mode = CountTo
     /\ timers[i].running
     /\ timers[i].countToTargetEpochMs # Null) =>
      \A now \in NowValues :
        computeDisplayMs(timers[i], now, TRUE) =
          timers[i].countToTargetEpochMs - now

\* C15: startSelected at now in CountTo mode with typed (h, m, s) stores as
\* countToTargetEpochMs today's occurrence of that time of day if it has not yet
\* passed, otherwise tomorrow's; the stored target is strictly later than now and
\* at most 24 hours after now; while the timer runs its displayMs equals
\* countToTargetEpochMs - now before clamping.
C15_TypedTargetWithinDay ==
  /\ []C15_RunningDisplay
  /\ [][C15_StartStep]_vars

(* ------------------------------- C16 ---------------------------------- *)

C16_StartStep ==
  StartSelectedTimer =>
    \A i \in DOMAIN timers :
      (/\ timers[i].id = selectedTimerId
       /\ ~timers[i].running
       /\ timers[i].mode = CountTo) =>
        LET target == timers'[i].countToTargetEpochMs
        IN /\ keypadDigits = <<>> => target = timers[i].countToTargetEpochMs
           /\ target # Null =>
                timers'[i].baseMs = IF allowNegativeTime THEN target - clock
                                    ELSE Max(0, target - clock)

\* C16: on every startSelected at now of a non-running CountTo timer whose
\* countToTargetEpochMs is set (just typed or already there, digits in the buffer
\* or not), baseMs is overwritten with countToTargetEpochMs - now, clamped to >= 0
\* when allowNegativeTime is off and unclamped when it is on, whatever it held
\* before; countToTargetEpochMs is unchanged when no digits were typed.
C16_StartResnapshots == [][C16_StartStep]_vars

\* A CountTo timer paused with baseMs = 1600 (the snapshot 1000 plus 600 ms run)
\* and started again without digits at now = 600: baseMs is 400 = target - now.
C16_Witness ==
  /\ ~allowNegativeTime
  /\ intents = 5
  /\ clock = ClockStep
  /\ \E i \in DOMAIN timers :
       /\ timers[i].id = selectedTimerId
       /\ timers[i].mode = CountTo
       /\ timers[i].running
       /\ timers[i].startEpochMs = ClockStep
       /\ timers[i].countToTargetEpochMs = MsPerSecond
       /\ timers[i].baseMs = MsPerSecond - ClockStep

(* ------------------------------- C17 ---------------------------------- *)

\* Values put in place of baseMs and startEpochMs to see that the display of a
\* running CountTo timer does not depend on them.
C17_OtherValues == {Null, 0, ClockStep, MsPerSecond}

C17_Clamped(ms, allowNegative) ==
  IF allowNegative \/ ms >= 0 THEN ms ELSE 0

\* C17: displayMs of a CountTo timer is 0 when countToTargetEpochMs is null,
\* running or not; when the target is set it is countToTargetEpochMs - now while
\* running, whatever baseMs and startEpochMs are, and exactly baseMs while paused,
\* whatever now is; in both cases clamped to >= 0 when allowNegativeTime is off.
C17_CountToDisplay ==
  \A i \in DOMAIN timers :
    timers[i].mode = CountTo =>
      \A now \in NowValues, allowNegative \in BOOLEAN :
        LET t == timers[i]
            display == computeDisplayMs(t, now, allowNegative)
        IN /\ t.countToTargetEpochMs = Null => display = 0
           /\ (t.countToTargetEpochMs # Null /\ t.running) =>
                /\ display = C17_Clamped(t.countToTargetEpochMs - now, allowNegative)
                /\ \A b, s \in C17_OtherValues :
                     computeDisplayMs([t EXCEPT !.baseMs = b, !.startEpochMs = s],
                                      now, allowNegative) = display
           /\ (t.countToTargetEpochMs # Null /\ ~t.running) =>
                display = C17_Clamped(t.baseMs, allowNegative)

\* A paused CountTo timer whose frozen baseMs differs from the live remainder,
\* and the display is the frozen value.
C17_Witness ==
  \E i \in DOMAIN timers :
    /\ timers[i].mode = CountTo
    /\ ~timers[i].running
    /\ timers[i].countToTargetEpochMs # Null
    /\ timers[i].baseMs > 0
    /\ timers[i].baseMs # timers[i].countToTargetEpochMs - nowEpochMs
    /\ computeDisplayMs(timers[i], nowEpochMs, allowNegativeTime) = timers[i].baseMs

(* ------------------------------- C18 ---------------------------------- *)

\* The four intents on a timer, as <<kind, mode>> (the mode counts for setMode).
C18_Intents ==
  {<<"pause", CountUp>>, <<"clear", CountUp>>, <<"start", CountUp>>}
    \cup {<<"setMode", mode>> : mode \in TimerMode}

\* The timers and the keypad buffer after the intent on timer timerId (selected
\* for it), at the present Date.now() and options.
C18_Apply(intent, st, timerId) ==
  CASE intent[1] = "pause" ->
         [timers |-> updateTimer(st.timers, timerId,
                       [i \in DOMAIN st.timers |->
                          pauseUpdater(st.timers[i], clock)]),
          keypadDigits |-> st.keypadDigits]
    [] intent[1] = "clear" ->
         [timers |-> updateTimer(st.timers, timerId,
                       [i \in DOMAIN st.timers |->
                          clearUpdater(st.timers[i], clearBehavior)]),
          keypadDigits |-> <<>>]
    [] intent[1] = "start" ->
         [timers |-> updateTimer(st.timers, timerId,
                       [i \in DOMAIN st.timers |->
                          startUpdater(st.timers[i], st.keypadDigits, clock,
                                       allowNegativeTime)]),
          keypadDigits |-> <<>>]
    [] intent[1] = "setMode" ->
         [timers |-> updateTimer(st.timers, timerId,
                       [i \in DOMAIN st.timers |->
                          setModeUpdater(st.timers[i], intent[2], clock)]),
          keypadDigits |-> st.keypadDigits]

C18_Here == [timers |-> timers, keypadDigits |-> keypadDigits]

C18_There == [timers |-> timers', keypadDigits |-> keypadDigits']

\* The steps of the model are these intents on the selected timer.
C18_StepsAreIntents ==
  /\ PauseTimer(selectedTimerId) =>
       C18_There = C18_Apply(<<"pause", CountUp>>, C18_Here, selectedTimerId)
  /\ ClearTimer(selectedTimerId) =>
       C18_There = C18_Apply(<<"clear", CountUp>>, C18_Here, selectedTimerId)
  /\ StartSelectedTimer =>
       C18_There = C18_Apply(<<"start", CountUp>>, C18_Here, selectedTimerId)
  /\ \A mode \in TimerMode :
       SetModeForSelectedTimer(mode) =>
         C18_There = C18_Apply(<<"setMode", mode>>, C18_Here, selectedTimerId)

C18_OthersUnchanged ==
  (\/ PauseTimer(selectedTimerId)
   \/ ClearTimer(selectedTimerId)
   \/ StartSelectedTimer
   \/ \E mode \in TimerMode : SetModeForSelectedTimer(mode)) =>
    /\ DOMAIN timers' = DOMAIN timers
    /\ \A i \in DOMAIN timers :
         timers[i].id # selectedTimerId => timers'[i] = timers[i]

\* Intent f on timer a and intent g on timer b end with the same timers in
\* either order.
C18_Commute(f, g, a, b) ==
  C18_Apply(g, C18_Apply(f, C18_Here, a), b).timers =
  C18_Apply(f, C18_Apply(g, C18_Here, b), a).timers

\* With digits pending in the shared keypad buffer, a start takes them and a
\* clear empties them: the start that comes second finds none.
C18_ShareTheBuffer(f, g) ==
  /\ keypadDigits # <<>>
  /\ \/ f[1] = "start" /\ g[1] \in {"start", "clear"}
     \/ g[1] = "start" /\ f[1] \in {"start", "clear"}

C18_AllCommute ==
  \A a, b \in TimerIds(timers) :
    a < b => \A f, g \in C18_Intents : C18_Commute(f, g, a, b)

C18_CommuteButForTheBuffer ==
  \A a, b \in TimerIds(timers) :
    a < b => \A f, g \in C18_Intents :
               ~C18_ShareTheBuffer(f, g) => C18_Commute(f, g, a, b)

\* C18: pause, clear, setMode and startSelected applied to the selected timer
\* leave every other timer of the list unchanged in all fields, and two such
\* intents applied to two different timers give the same final timer states in
\* either order (at the same timestamps).
C18_IndependentTimers ==
  /\ []C18_AllCommute
  /\ [][C18_StepsAreIntents /\ C18_OthersUnchanged]_vars

\* C18 as it holds: pause, clear, setMode and startSelected applied to the
\* selected timer leave every other timer unchanged in all fields, and two such
\* intents applied to two different timers give the same final timer states in
\* either order (at the same timestamps), except when digits are pending in the
\* keypad buffer and one intent is a start and the other a start or a clear.
C18_IndependentButForTheBuffer ==
  /\ []C18_CommuteButForTheBuffer
  /\ [][C18_StepsAreIntents /\ C18_OthersUnchanged]_vars

\* Two timers running, started at different times, the selected one for 600 ms:
\* every intent on either of them has an effect.
C18_Witness ==
  \E i, j \in DOMAIN timers :
    /\ timers[i].id = selectedTimerId
    /\ timers[j].id # selectedTimerId
    /\ timers[i].running
    /\ timers[j].running
    /\ timers[i].startEpochMs < clock
    /\ timers[j].startEpochMs = clock

(* ------------------------------- C19 ---------------------------------- *)

\* The number a sequence of digits writes.
RECURSIVE C19_Value(_)
C19_Value(d) ==
  IF d = <<>> THEN 0
  ELSE 10 * C19_Value(SubSeq(d, 1, Len(d) - 1)) + d[Len(d)]

\* The buffer read as HHMMSS: a number below 10^6 is its own left-padding.
C19_Pairs(d) ==
  [h |-> C19_Value(d) \div 10000,
   m |-> (C19_Value(d) \div 100) % 100,
   s |-> C19_Value(d) % 100]

C19_Parsed ==
  /\ Len(keypadDigits) <= KeypadLen
  /\ parseKeypadDigitsToHms(keypadDigits) =
       [h |-> Min(C19_Pairs(keypadDigits).h, 99),
        m |-> Min(C19_Pairs(keypadDigits).m, 59),
        s |-> Min(C19_Pairs(keypadDigits).s, 59)]
  /\ parseKeypadDigitsToHms(<<9, 1, 5>>) = [h |-> 0, m |-> 9, s |-> 15]
  /\ parseKeypadDigitsToHms(<<9, 9, 9, 9, 9, 9>>) = [h |-> 99, m |-> 59, s |-> 59]

C19_KeypadStep ==
  /\ \A d \in limits.digits :
       AppendDigit(d) =>
         keypadDigits' = IF Len(keypadDigits) < KeypadLen
                         THEN Append(keypadDigits, d)
                         ELSE Append(Tail(keypadDigits), d)
  /\ DeleteDigit =>
       /\ Len(keypadDigits') = Len(keypadDigits) - 1
       /\ \A k \in 1..Len(keypadDigits') : keypadDigits'[k] = keypadDigits[k]
  /\ ClearDigits => keypadDigits' = <<>>

\* C19: the keypad buffer holds at most 6 digits in every reachable state (append
\* keeps the most recent 6, delete removes the last digit, clear empties it), and
\* for every such buffer parse returns h, m, s equal to the first, middle and last
\* two digits of the buffer left-padded with zeros to 6 digits, h clamped to
\* [0,99], m and s each clamped to [0,59] without carry ("915" gives 0, 9, 15;
\* "999999" gives 99, 59, 59).
C19_KeypadBufferAndParse ==
  /\ []C19_Parsed
  /\ [][C19_KeypadStep]_vars

\* A full buffer whose minutes and seconds are clamped: "159995" reads 15, 59, 59.
C19_Witness ==
  /\ keypadDigits = <<1, 5, 9, 9, 9, 5>>
  /\ parseKeypadDigitsToHms(keypadDigits) = [h |-> 15, m |-> 59, s |-> 59]

(* ------------------------------- C20 ---------------------------------- *)

\* A start without digits of a CountTo timer whose target is not after now, with
\* negative time not allowed, is accepted.
C20_StartAccepted ==
  (StartSelectedTimer /\ keypadDigits = <<>> /\ ~allowNegativeTime) =>
    \A i \in DOMAIN timers :
      (/\ timers[i].id = selectedTimerId
       /\ ~timers[i].running
       /\ timers[i].mode = CountTo
       /\ timers[i].countToTargetEpochMs # Null
       /\ timers[i].countToTargetEpochMs <= clock) =>
        /\ timers'[i] = [timers[i] EXCEPT !.running = TRUE,
                                          !.startEpochMs = clock,
                                          !.baseMs = 0]
        /\ computeDisplayMs(timers'[i], clock, FALSE) = 0

\* The timer was started when its target had passed.
C20_StartedPastTarget(t) ==
  /\ t.running
  /\ t.mode = CountTo
  /\ t.countToTargetEpochMs # Null
  /\ t.countToTargetEpochMs <= t.startEpochMs

C20_Stopped(t) ==
  [t EXCEPT !.running = FALSE, !.startEpochMs = Null, !.baseMs = 0]

C20_NextRunStops ==
  WatchdogRan =>
    \A i \in DOMAIN timers :
      C20_StartedPastTarget(timers[i]) => timers'[i] = C20_Stopped(timers[i])

C20_NextRunStopsPassedTarget ==
  WatchdogRan =>
    \A i \in DOMAIN timers :
      (C20_StartedPastTarget(timers[i])
         /\ timers[i].countToTargetEpochMs <= clock) =>
        timers'[i] = C20_Stopped(timers[i])

\* C20: with allowNegativeTime off, starting without typed digits a CountTo timer
\* whose stored target is already in the past is accepted: the timer becomes
\* running with baseMs = 0 and displayMs = 0, and the very next watchdog run stops
\* it again (running = false, startEpochMs = null, baseMs = 0), the target still
\* unchanged.
C20_PastTargetStartThenStop ==
  [][C20_StartAccepted]_vars /\ [][C20_NextRunStops]_vars

\* C20 as it holds: the start is accepted as stated, and the very next watchdog
\* run stops the timer again, the target unchanged, when the now it reads is not
\* earlier than the target.
C20_PastTargetStartThenStopAtLaterNow ==
  [][C20_StartAccepted]_vars /\ [][C20_NextRunStopsPassedTarget]_vars

\* A CountTo timer started after its target had passed: running, baseMs = 0,
\* showing 0.
C20_Witness ==
  /\ ~allowNegativeTime
  /\ \E i \in DOMAIN timers :
       /\ C20_StartedPastTarget(timers[i])
       /\ timers[i].startEpochMs = clock
       /\ timers[i].baseMs = 0
       /\ computeDisplayMs(timers[i], clock, allowNegativeTime) = 0

(* ------------------------------- C21 ---------------------------------- *)

\* C21: whenever allowNegativeTime is off, the displayMs of every timer in every
\* mode (CountUp included) is >= 0, in every state reachable by any sequence of
\* intents, ticks and option changes, also when allowNegativeTime was on earlier
\* and was switched off later.
C21_NeverNegativeWhenOff ==
  ~allowNegativeTime =>
    \A i \in DOMAIN timers :
      computeDisplayMs(timers[i], nowEpochMs, allowNegativeTime) >= 0

(* ------------------------------- C22 ---------------------------------- *)

C22_PauseStep ==
  PauseTimer(selectedTimerId) =>
    \A i \in DOMAIN timers :
      (/\ timers[i].id = selectedTimerId
       /\ timers[i].running
       /\ timers[i].mode = CountTo => timers[i].countToTargetEpochMs # Null) =>
        \A now \in NowValues :
          now >= clock =>
            computeDisplayMs(timers'[i], now, allowNegativeTime) =
              computeDisplayMs(timers[i], clock, allowNegativeTime)

\* C22: pausing a running timer at now does not change the value it displays: in
\* every mode (CountUp, CountDown, CountTo with a target set) displayMs at now
\* just after the pause equals displayMs at the same now just before it, and it
\* is that value at every later now while the timer stays paused.
C22_PauseKeepsDisplay == [][C22_PauseStep]_vars

====
